---- MODULE Spec2Model ----
(***************************************************************************)
(* The webhook ingestion / keyword automation / reconciliation pipeline of *)
(* the render server (src/unnamed/part_000) and of its processor variant   *)
(* (src/server.js), as a state machine over the document store's           *)
(* collections.  The variable server says which of the two programs runs;  *)
(* the processor has the same handlers without the logEvent calls, reads a *)
(* comment also from an entry's own field / value, and has one endpoint,   *)
(* POST /process-webhook.                                                  *)
(*                                                                         *)
(* JavaScript objects are flattened into records with every field present; *)
(* an absent string is "", an absent array is <<>> and a presence flag     *)
(* (hasMessage, hasEntry, hasData, ...) stands where the code tests a      *)
(* value for truthiness.  Texts are sequences of one-character strings so  *)
(* that toLowerCase and includes are computed, not assumed.  Dates are     *)
(* abstracted: Date.now() in a synthetic id is the fixed suffix "now", and *)
(* processedAt / repliedAt are presence flags.                             *)
(*                                                                         *)
(* Requests are those that verifyAuth (the bearer token check) has let     *)
(* through.                                                                *)
(*                                                                         *)
(* Every await on the store or on fetch is an I/O call.  The calls of one  *)
(* atomic step are numbered 1, 2, ... in program order (the field k of the *)
(* threaded state); a fault plan fp names the calls that fail in that step *)
(* (fp.at) and how a failing fetch fails (fp.mode).                        *)
(***************************************************************************)
EXTENDS Integers, Sequences, FiniteSets, TLC

\* Faults (store or transport) injected over a whole behaviour.
MaxFaults == 1
\* Live webhook requests delivered over a whole behaviour.
MaxWebhooks == 1
\* Cap on the number of message + comment records in the store.
MaxRecords == 3
\* .limit(50) of the pending fetch.
PendingLimit == 50

VARIABLES
  accounts,         \* collection "accounts" (read-only here)
  automations,      \* collection "automations" (read-only here), in store order
  webhook_events,   \* collection "webhook_events", in store order
  messages,         \* collection "messages"
  comments,         \* collection "comments"
  automation_logs,  \* collection "automation_logs"
  webhook_logs,     \* collection "webhook_logs"
  outbound,         \* HTTP calls issued to the Graph API, in order
  dispatches,       \* invocations of sendDirectMessage / replyToComment with their results
  sweep,            \* per sweeper: position in POST /process/pending
  lastSweep,        \* the last response of POST /process/pending
  lastReq,          \* the last live webhook request handled, with its response
  nWebhooks,        \* number of live webhook requests handled
  faultBudget,      \* number of faults still to be injected
  server            \* the program that runs: "render" (part_000) or "processor" (server.js)

vars == <<accounts, automations, webhook_events, messages, comments, automation_logs, webhook_logs, outbound, dispatches, sweep, lastSweep, lastReq, nWebhooks, faultBudget, server>>

Sweepers == {"s1", "s2"}

(***************************************************************************)
(* Strings                                                                 *)
(***************************************************************************)
Lower(c) == CASE c = "P" -> "p" [] c = "X" -> "x" [] c = "Q" -> "q" [] OTHER -> c

toLowerCase(s) == [i \in 1..Len(s) |-> Lower(s[i])]

includes(s, k) == \E i \in 0..(Len(s) - Len(k)) : SubSeq(s, i + 1, i + Len(k)) = k

(***************************************************************************)
(* The threaded state of one atomic step and its I/O calls.  An operator   *)
(* that continues a handler after an await takes the state reached so far  *)
(* as its first parameter.                                                 *)
(***************************************************************************)
Tick(st) == [st EXCEPT !.k = @ + 1]

\* The next I/O call of st is one the fault plan fails.
Fails(st, fp) == (st.k + 1) \in fp.at

\* The processor has a console.log wherever the render server calls logEvent.
\* timestamp (new Date()) is kept as the place of the write among the I/O calls
\* of its request.
logEvent(st, fp, eventType, success) ==
  IF st.srv = "processor" THEN st
  ELSE
  [st EXCEPT !.k = @ + 1,
             !.webhook_logs = IF Fails(st, fp) THEN @
                              ELSE Append(@, [eventType |-> eventType, success |-> success,
                                              timestamp |-> st.k + 1])]

\* A log write whose failure is not absorbed: the failure falls on the next
\* call of the caller.
logAutomationTriggerPropagating(st, fp, automation, instagramId, triggeredBy, triggerText, replyMessage, triggerType) ==
  IF Fails(st, fp) THEN st
  ELSE
  [st EXCEPT !.k = @ + 1,
             !.automation_logs =
                Append(@, [automationId |-> automation._id, automationName |-> automation.name,
                           instagramId |-> instagramId, triggeredBy |-> triggeredBy,
                           triggerText |-> triggerText, replyMessage |-> replyMessage,
                           triggerType |-> triggerType, timestamp |-> st.k + 1])]

logAutomationTrigger(st, fp, automation, instagramId, triggeredBy, triggerText, replyMessage, triggerType) ==
  [st EXCEPT !.k = @ + 1,
             !.automation_logs =
                IF Fails(st, fp) THEN @
                ELSE Append(@, [automationId |-> automation._id, automationName |-> automation.name,
                                instagramId |-> instagramId, triggeredBy |-> triggeredBy,
                                triggerText |-> triggerText, replyMessage |-> replyMessage,
                                triggerType |-> triggerType, timestamp |-> st.k + 1])]

(***************************************************************************)
(* Action Dispatcher                                                       *)
(***************************************************************************)
\* db.collection("accounts").findOne({ instagramId }): the first match, or a
\* null account, which reads as an account with no accessToken.
findOne(coll, instagramId) ==
  IF \E i \in 1..Len(coll) : coll[i].instagramId = instagramId
  THEN coll[CHOOSE i \in 1..Len(coll) :
              /\ coll[i].instagramId = instagramId
              /\ \A j \in 1..(i - 1) : coll[j].instagramId # instagramId]
  ELSE [instagramId |-> instagramId, accessToken |-> ""]

Failure(error) == [success |-> FALSE, error |-> error, id |-> ""]

Success(id) == [success |-> TRUE, error |-> "", id |-> id]

\* One request put on the wire, with whether the platform answered 2xx.
Sent(st, url, id, recipient, text, token, ok) ==
  [st EXCEPT !.k = @ + 1,
             !.outbound = Append(@, [url |-> url, id |-> id, recipient |-> recipient,
                                     text |-> text, token |-> token, ok |-> ok])]

\* await fetch(url, { method: "POST", ... }); await response.json(); response.ok
\* A 2xx answer of the Graph API carries the id of the object it created.
graphPost(st, fp, url, id, recipient, text, token) ==
  IF ~Fails(st, fp)
  THEN [st |-> Sent(st, url, id, recipient, text, token, TRUE), result |-> Success("remote_id"), threw |-> FALSE]
  ELSE CASE fp.mode = "reject" ->
              [st |-> Sent(st, url, id, recipient, text, token, FALSE), result |-> Failure("responseData"), threw |-> FALSE]
         [] fp.mode = "badjson" ->
              [st |-> Sent(st, url, id, recipient, text, token, TRUE), result |-> Failure("parse error"), threw |-> TRUE]
         [] OTHER ->
              [st |-> Sent(st, url, id, recipient, text, token, FALSE), result |-> Failure("transport error"), threw |-> TRUE]

\* A dispatcher without its catch: the exception leaves the function.
uncaught(r) == r

\* catch (error) { return { success: false, error: error.message } }
caught(r) == [st |-> r.st, result |-> r.result, threw |-> FALSE]

\* A dispatcher that posts with whatever token the lookup gave, even none.
sendDirectMessageAnyToken(st, fp, instagramId, recipientId, message) ==
  IF Fails(st, fp) THEN [st |-> Tick(st), result |-> Failure("store error"), threw |-> FALSE]
  ELSE caught(graphPost(Tick(st), fp, "messages", instagramId, recipientId, message,
                        findOne(accounts, instagramId).accessToken))

sendDirectMessage(st, fp, instagramId, recipientId, message) ==
  IF Fails(st, fp) THEN [st |-> Tick(st), result |-> Failure("store error"), threw |-> FALSE]
  ELSE IF findOne(accounts, instagramId).accessToken = ""
  THEN [st |-> Tick(st), result |-> Failure("No access token"), threw |-> FALSE]
  ELSE caught(graphPost(Tick(st), fp, "messages", instagramId, recipientId, message,
                        findOne(accounts, instagramId).accessToken))

replyToComment(st, fp, commentId, replyMessage, instagramId) ==
  IF Fails(st, fp) THEN [st |-> Tick(st), result |-> Failure("store error"), threw |-> FALSE]
  ELSE IF findOne(accounts, instagramId).accessToken = ""
  THEN [st |-> Tick(st), result |-> Failure("No access token"), threw |-> FALSE]
  ELSE caught(graphPost(Tick(st), fp, "replies", commentId, "", replyMessage,
                        findOne(accounts, instagramId).accessToken))

(***************************************************************************)
(* Automation Matcher                                                      *)
(***************************************************************************)
\* db.collection("automations").find({ instagramId, isActive: true, type }).toArray()
find(coll, instagramId, type) ==
  LET keep(a) == a.instagramId = instagramId /\ a.isActive /\ a.type = type
      F[i \in 0..Len(coll)] ==
        IF i = 0 THEN <<>> ELSE IF keep(coll[i]) THEN Append(F[i - 1], coll[i]) ELSE F[i - 1]
  IN F[Len(coll)]

\* keywords.some((keyword) => text.includes(keyword.toLowerCase()))
\* A matcher that lowercases the text only and leaves the keyword as written.
hasKeywordAsWritten(keywords, text) == \E i \in 1..Len(keywords) : includes(text, keywords[i])

hasKeyword(keywords, text) == \E i \in 1..Len(keywords) : includes(text, toLowerCase(keywords[i]))

\* The record of one Dispatcher invocation, taken at its call site: st is the
\* state the Dispatcher was entered in, r what it returned; first and last are
\* the places of its first and last I/O call among those of the request.
Dispatched(st, r, api, kind, doc, automation, target) ==
  [r.st EXCEPT !.dispatches = Append(@,
     [api |-> api, kind |-> kind, recordId |-> doc._id, eventText |-> doc.text,
      instagramId |-> doc.instagramId, automationId |-> automation._id,
      target |-> target, text |-> automation.replyMessage,
      result |-> r.result, threw |-> r.threw,
      first |-> st.k + 1, last |-> r.st.k,
      httpCalls |-> Len(r.st.outbound) - Len(st.outbound),
      accepted |-> Len(r.st.outbound) > Len(st.outbound) /\ r.st.outbound[Len(r.st.outbound)].ok])]

\* A matcher that writes the automation log whatever the dispatch returned.
messageFiredLogAlways(st, r, fp, instagramId, messageData, automation) ==
  logAutomationTrigger(
    logEvent(Dispatched(st, r, "sendDirectMessage", "message", messageData, automation, messageData.senderId),
             fp, "automation_triggered", TRUE),
    fp, automation, instagramId, messageData.senderId, messageData.text, automation.replyMessage, "message")

\* processMessageAutomation after await sendDirectMessage(...)
messageFired(st, r, fp, instagramId, messageData, automation) ==
  IF r.threw
  THEN logEvent(Dispatched(st, r, "sendDirectMessage", "message", messageData, automation, messageData.senderId),
                fp, "message_automation_error", FALSE)
  ELSE IF r.result.success
  THEN logAutomationTrigger(
         logEvent(Dispatched(st, r, "sendDirectMessage", "message", messageData, automation, messageData.senderId),
                  fp, "automation_triggered", TRUE),
         fp, automation, instagramId, messageData.senderId, messageData.text, automation.replyMessage, "message")
  ELSE logEvent(Dispatched(st, r, "sendDirectMessage", "message", messageData, automation, messageData.senderId),
                fp, "automation_triggered", TRUE)

messageFire(st, fp, instagramId, messageData, automation) ==
  messageFired(st, sendDirectMessage(st, fp, instagramId, messageData.senderId, automation.replyMessage),
               fp, instagramId, messageData, automation)

\* A scan that goes on to the next automation when the dispatch failed.
RECURSIVE messageLoopRetry(_, _, _, _, _, _)
messageLoopRetry(st, fp, instagramId, messageData, messageText, autos) ==
  IF Len(autos) = 0 THEN st
  ELSE IF hasKeyword(Head(autos).triggerKeywords, messageText)
       THEN LET r == messageFire(st, fp, instagramId, messageData, Head(autos))
            IN IF r.dispatches[Len(r.dispatches)].result.success THEN r
               ELSE messageLoopRetry(r, fp, instagramId, messageData, messageText, Tail(autos))
       ELSE messageLoopRetry(st, fp, instagramId, messageData, messageText, Tail(autos))

\* for (const automation of automations) { ... if (hasKeyword) { ...; break } }
RECURSIVE messageLoop(_, _, _, _, _, _)
messageLoop(st, fp, instagramId, messageData, messageText, autos) ==
  IF Len(autos) = 0 THEN st
  ELSE IF hasKeyword(Head(autos).triggerKeywords, messageText)
       THEN messageFire(st, fp, instagramId, messageData, Head(autos))
       ELSE messageLoop(st, fp, instagramId, messageData, messageText, Tail(autos))

processMessageAutomation(st, fp, instagramId, messageData) ==
  IF Fails(st, fp) THEN logEvent(Tick(st), fp, "message_automation_error", FALSE)
  ELSE IF Len(find(automations, instagramId, "message")) = 0
  THEN logEvent(Tick(st), fp, "no_message_automations", TRUE)
  ELSE messageLoop(Tick(st), fp, instagramId, messageData, toLowerCase(messageData.text),
                   find(automations, instagramId, "message"))

\* updateOne({ _id }, { $set: { isProcessed: true, automationId, replyId, repliedAt } })
markReplied(coll, id, automation, result) ==
  [i \in 1..Len(coll) |->
     IF coll[i]._id = id
     THEN [coll[i] EXCEPT !.isProcessed = TRUE, !.automationId = automation._id,
                          !.replyId = result.id, !.repliedAt = TRUE]
     ELSE coll[i]]

\* processCommentAutomation after logAutomationTrigger: the update of the comment
commentReplied(st, fp, commentData, automation, result) ==
  IF Fails(st, fp) THEN logEvent(Tick(st), fp, "comment_automation_error", FALSE)
  ELSE [st EXCEPT !.k = @ + 1, !.comments = markReplied(@, commentData._id, automation, result)]

\* A matcher that marks the comment whatever the reply call returned.
commentFiredUnconditional(st, r, fp, instagramId, commentData, automation) ==
  commentReplied(
    logAutomationTrigger(
      logEvent(Dispatched(st, r, "replyToComment", "comment", commentData, automation, commentData.commentId),
               fp, "comment_automation_triggered", TRUE),
      fp, automation, instagramId, commentData.userId, commentData.text, automation.replyMessage, "comment"),
    fp, commentData, automation, r.result)

\* processCommentAutomation after await replyToComment(...)
commentFired(st, r, fp, instagramId, commentData, automation) ==
  IF r.threw
  THEN logEvent(Dispatched(st, r, "replyToComment", "comment", commentData, automation, commentData.commentId),
                fp, "comment_automation_error", FALSE)
  ELSE IF r.result.success
  THEN commentReplied(
         logAutomationTrigger(
           logEvent(Dispatched(st, r, "replyToComment", "comment", commentData, automation, commentData.commentId),
                    fp, "comment_automation_triggered", TRUE),
           fp, automation, instagramId, commentData.userId, commentData.text, automation.replyMessage, "comment"),
         fp, commentData, automation, r.result)
  ELSE logEvent(Dispatched(st, r, "replyToComment", "comment", commentData, automation, commentData.commentId),
                fp, "comment_automation_triggered", TRUE)

commentFire(st, fp, instagramId, commentData, automation) ==
  commentFired(st, replyToComment(st, fp, commentData.commentId, automation.replyMessage, instagramId),
               fp, instagramId, commentData, automation)

RECURSIVE commentLoop(_, _, _, _, _, _)
commentLoop(st, fp, instagramId, commentData, commentText, autos) ==
  IF Len(autos) = 0 THEN st
  ELSE IF hasKeyword(Head(autos).triggerKeywords, commentText)
       THEN commentFire(st, fp, instagramId, commentData, Head(autos))
       ELSE commentLoop(st, fp, instagramId, commentData, commentText, Tail(autos))

processCommentAutomation(st, fp, instagramId, commentData) ==
  IF Fails(st, fp) THEN logEvent(Tick(st), fp, "comment_automation_error", FALSE)
  ELSE IF Len(find(automations, instagramId, "comment")) = 0
  THEN logEvent(Tick(st), fp, "no_comment_automations", TRUE)
  ELSE commentLoop(Tick(st), fp, instagramId, commentData, toLowerCase(commentData.text),
                   find(automations, instagramId, "comment"))

(***************************************************************************)
(* Event Normalizer                                                        *)
(***************************************************************************)
\* createdAt (new Date()) is kept as the place of the record's insertOne among
\* the I/O calls of its request.
messageData(st, instagramId, message) ==
  [_id |-> Len(st.messages) + 1,
   instagramId |-> instagramId,
   messageId |-> IF message.mid # "" THEN message.mid ELSE "msg_now",
   senderId |-> message.sender,
   text |-> message.text,
   isEcho |-> FALSE,
   createdAt |-> st.k + 1,
   processed |-> FALSE]

\* handleMessage after insertOne and logEvent("message_stored")
messageStored(st, fp, instagramId, doc) ==
  IF Len(doc.text) > 0 THEN processMessageAutomation(st, fp, instagramId, doc) ELSE st

\* A handler that skips payload-less items only and stores echoes.
handleMessageWithEchoes(st, fp, instagramId, message) ==
  IF message.isNull THEN logEvent(st, fp, "message_handling_error", FALSE)
  ELSE IF ~message.hasMessage THEN st
  ELSE IF Fails(st, fp) THEN logEvent(Tick(st), fp, "message_handling_error", FALSE)
  ELSE messageStored(
         logEvent([st EXCEPT !.k = @ + 1, !.messages = Append(@, messageData(st, instagramId, message))],
                  fp, "message_stored", TRUE),
         fp, instagramId, messageData(st, instagramId, message))

handleMessage(st, fp, instagramId, message) ==
  IF message.isNull THEN logEvent(st, fp, "message_handling_error", FALSE)
  ELSE IF ~message.hasMessage \/ message.is_echo THEN st
  ELSE IF Fails(st, fp) THEN logEvent(Tick(st), fp, "message_handling_error", FALSE)
  ELSE messageStored(
         logEvent([st EXCEPT !.k = @ + 1, !.messages = Append(@, messageData(st, instagramId, message))],
                  fp, "message_stored", TRUE),
         fp, instagramId, messageData(st, instagramId, message))

commentData(st, instagramId, commentValue) ==
  [_id |-> Len(st.comments) + 1,
   instagramId |-> instagramId,
   commentId |-> IF commentValue.id # "" THEN commentValue.id
                 ELSE IF commentValue.comment_id # "" THEN commentValue.comment_id
                 ELSE "comment_now",
   userId |-> commentValue.from,
   text |-> commentValue.text,
   createdAt |-> st.k + 1,
   isProcessed |-> FALSE,
   automationId |-> "",
   replyId |-> "",
   repliedAt |-> FALSE]

\* A handler that passes every stored comment to the matcher, text or not.
commentStoredUnguarded(st, fp, instagramId, doc) == processCommentAutomation(st, fp, instagramId, doc)

\* handleComment after insertOne and logEvent("comment_stored")
commentStored(st, fp, instagramId, doc) ==
  IF Len(doc.text) > 0 THEN processCommentAutomation(st, fp, instagramId, doc) ELSE st

\* A handler that goes on to the matcher although the insert failed.
handleCommentInsertIgnored(st, fp, instagramId, commentValue) ==
  IF ~commentValue.hasValue THEN logEvent(st, fp, "comment_handling_error", FALSE)
  ELSE IF Fails(st, fp)
  THEN commentStored(logEvent(Tick(st), fp, "comment_stored", TRUE), fp, instagramId,
                     commentData(st, instagramId, commentValue))
  ELSE commentStored(
         logEvent([st EXCEPT !.k = @ + 1, !.comments = Append(@, commentData(st, instagramId, commentValue))],
                  fp, "comment_stored", TRUE),
         fp, instagramId, commentData(st, instagramId, commentValue))

handleComment(st, fp, instagramId, commentValue) ==
  IF ~commentValue.hasValue THEN logEvent(st, fp, "comment_handling_error", FALSE)
  ELSE IF Fails(st, fp) THEN logEvent(Tick(st), fp, "comment_handling_error", FALSE)
  ELSE commentStored(
         logEvent([st EXCEPT !.k = @ + 1, !.comments = Append(@, commentData(st, instagramId, commentValue))],
                  fp, "comment_stored", TRUE),
         fp, instagramId, commentData(st, instagramId, commentValue))

\* for (const message of entry.messaging) await handleMessage(instagramId, message)
RECURSIVE messagingLoop(_, _, _, _)
messagingLoop(st, fp, instagramId, messaging) ==
  IF Len(messaging) = 0 THEN st
  ELSE messagingLoop(handleMessage(st, fp, instagramId, Head(messaging)), fp, instagramId, Tail(messaging))

\* for (const change of entry.changes): reading change.field of a null change
\* throws out of the loop, into the entry's catch.
RECURSIVE changesLoop(_, _, _, _)
changesLoop(st, fp, instagramId, changes) ==
  IF Len(changes) = 0 THEN [st |-> st, threw |-> FALSE]
  ELSE IF Head(changes).isNull THEN [st |-> st, threw |-> TRUE]
  ELSE IF Head(changes).field = "comments" \/ Head(changes).field = "live_comments"
  THEN changesLoop(handleComment(st, fp, instagramId, Head(changes)), fp, instagramId, Tail(changes))
  ELSE changesLoop(st, fp, instagramId, Tail(changes))

\* catch (entryError) { await logEvent("entry_processing_error", ...) }
entryCatch(r, fp) == IF r.threw THEN logEvent(r.st, fp, "entry_processing_error", FALSE) ELSE r.st

\* server.js only: if (entry.field === "comments" || entry.field === "live_comments")
\*                   await handleComment(instagramId, entry.value)
directField(r, fp, entry) ==
  IF r.threw \/ r.st.srv # "processor" THEN r
  ELSE IF entry.field = "comments" \/ entry.field = "live_comments"
  THEN [st |-> handleComment(r.st, fp, entry.id, entry.value), threw |-> FALSE]
  ELSE r

\* An entry handler that goes through changes before messaging.
processEntryChangesFirst(st, fp, entry) ==
  IF entry.isNull THEN logEvent(st, fp, "entry_processing_error", FALSE)
  ELSE LET r == changesLoop(st, fp, entry.id, entry.changes)
       IN entryCatch(directField([st |-> IF r.threw THEN r.st ELSE messagingLoop(r.st, fp, entry.id, entry.messaging),
                                  threw |-> r.threw],
                                 fp, entry),
                     fp)

processEntry(st, fp, entry) ==
  IF entry.isNull THEN logEvent(st, fp, "entry_processing_error", FALSE)
  ELSE entryCatch(directField(changesLoop(messagingLoop(st, fp, entry.id, entry.messaging), fp, entry.id, entry.changes),
                              fp, entry),
                  fp)

RECURSIVE entriesLoop(_, _, _)
entriesLoop(st, fp, entries) ==
  IF Len(entries) = 0 THEN st
  ELSE entriesLoop(processEntry(st, fp, Head(entries)), fp, Tail(entries))

\* for (const entry of entries) throws a TypeError when entries is not iterable.
processWebhookEntries(st, fp, envelope) ==
  IF ~envelope.entryIsArray THEN [st |-> st, threw |-> TRUE]
  ELSE [st |-> entriesLoop(st, fp, envelope.entry), threw |-> FALSE]

(***************************************************************************)
(* POST /webhook/process and POST /process/pending                         *)
(***************************************************************************)
\* A response that reports a failed dispatch of a sub-item as a server error.
webhookRespondStrict(r, fp) ==
  IF r.threw \/ \E n \in 1..Len(r.st.dispatches) : ~r.st.dispatches[n].result.success
  THEN [st |-> logEvent(r.st, fp, "webhook_processing_error", FALSE), status |-> 500]
  ELSE [st |-> logEvent(r.st, fp, "webhook_processed_on_render", TRUE), status |-> 200]

\* POST /webhook/process after await processWebhookEntries(...)
webhookRespond(r, fp) ==
  IF r.threw
  THEN [st |-> logEvent(r.st, fp, "webhook_processing_error", FALSE), status |-> 500]
  ELSE [st |-> logEvent(r.st, fp, "webhook_processed_on_render", TRUE), status |-> 200]

\* An endpoint that tests the object only and not the presence of entry.
webhookProcessObjectOnly(st, fp, webhookData) ==
  IF webhookData.object = "instagram"
  THEN webhookRespond(processWebhookEntries(st, fp, webhookData), fp)
  ELSE [st |-> st, status |-> 400]

webhookProcess(st, fp, webhookData) ==
  IF webhookData.object = "instagram" /\ webhookData.hasEntry
  THEN webhookRespond(processWebhookEntries(st, fp, webhookData), fp)
  ELSE [st |-> st, status |-> 400]

\* A fetch without the filter: every document, processed or not.
fetchPendingUnfiltered(coll) ==
  [r \in 1..(IF Len(coll) < PendingLimit THEN Len(coll) ELSE PendingLimit) |-> coll[r]]

\* POST /process-webhook of the processor after await processWebhookEntries(...)
processorRespond(r) == [st |-> r.st, status |-> IF r.threw THEN 500 ELSE 200]

\* POST /process-webhook of the processor: the first call is the update of
\* the webhook log, whose failure is caught and whose effect on the log
\* documents (a processed flag nothing reads) is not represented.
processWebhook(st, fp, webhookData) ==
  IF webhookData.object = "instagram" /\ webhookData.hasEntry
  THEN processorRespond(processWebhookEntries(Tick(st), fp, webhookData))
  ELSE [st |-> Tick(st), status |-> 200]

\* A fetch without the sort: the unprocessed documents in store order.
fetchPendingStoreOrder(coll) ==
  LET Unprocessed(e) == ~e.processed
      match == SelectSeq(coll, Unprocessed)
  IN SubSeq(match, 1, IF Len(match) < PendingLimit THEN Len(match) ELSE PendingLimit)

\* find({ processed: false }).sort({ createdAt: 1 }).limit(50).toArray(): the
\* unprocessed documents by ascending createdAt (ties in store order), cut to
\* the first 50.  Rank(i) is the place of document i in that order.
fetchPending(coll) ==
  LET match == {i \in 1..Len(coll) : ~coll[i].processed}
      Before(j, i) == coll[j].createdAt < coll[i].createdAt \/ (coll[j].createdAt = coll[i].createdAt /\ j < i)
      Rank(i) == Cardinality({j \in match : Before(j, i)}) + 1
      n == IF Cardinality(match) < PendingLimit THEN Cardinality(match) ELSE PendingLimit
  IN [r \in 1..n |-> coll[CHOOSE i \in match : Rank(i) = r]]

markProcessed(coll, id) ==
  [i \in 1..Len(coll) |->
     IF coll[i]._id = id THEN [coll[i] EXCEPT !.processed = TRUE, !.processedAt = TRUE] ELSE coll[i]]

markFailed(coll, id) ==
  [i \in 1..Len(coll) |->
     IF coll[i]._id = id THEN [coll[i] EXCEPT !.error = TRUE, !.processedAt = TRUE] ELSE coll[i]]

\* The loop body of POST /process/pending after await processWebhookEntries(...):
\* updateOne({ _id }, { $set: { processed: true, processedAt } })
sweepMark(r, fp, event) ==
  IF r.threw THEN r
  ELSE IF Fails(r.st, fp) THEN [st |-> Tick(r.st), threw |-> TRUE]
  ELSE [st |-> [r.st EXCEPT !.k = @ + 1, !.webhook_events = markProcessed(@, event._id)], threw |-> FALSE]

\* A loop body that marks the events it does not process as well.
sweepTryMarkAll(st, fp, event) ==
  IF ~event.hasData THEN [st |-> st, threw |-> TRUE]
  ELSE IF event.data.object = "instagram" /\ event.data.hasEntry
  THEN sweepMark(processWebhookEntries(st, fp, event.data), fp, event)
  ELSE sweepMark([st |-> st, threw |-> FALSE], fp, event)

\* The try block of the loop body; reading event.data.object of an event
\* without data throws.
sweepTry(st, fp, event) ==
  IF ~event.hasData THEN [st |-> st, threw |-> TRUE]
  ELSE IF event.data.object = "instagram" /\ event.data.hasEntry
  THEN sweepMark(processWebhookEntries(st, fp, event.data), fp, event)
  ELSE [st |-> st, threw |-> FALSE]

\* catch (eventError): updateOne({ _id }, { $set: { error, processedAt } });
\* threw: that update failed too and left the loop.
sweepCatch(r, fp, event) ==
  IF ~r.threw THEN r
  ELSE IF Fails(r.st, fp) THEN [st |-> Tick(r.st), threw |-> TRUE]
  ELSE [st |-> [r.st EXCEPT !.k = @ + 1, !.webhook_events = markFailed(@, event._id)], threw |-> FALSE]

sweepEvent(st, fp, event) == sweepCatch(sweepTry(st, fp, event), fp, event)

(***************************************************************************)
(* Steps                                                                   *)
(***************************************************************************)
Load == [webhook_events |-> webhook_events, messages |-> messages, comments |-> comments,
         automation_logs |-> automation_logs, webhook_logs |-> webhook_logs,
         outbound |-> outbound, dispatches |-> dispatches, k |-> 0, srv |-> server]

NoFault == [at |-> {}, mode |-> "throw"]

\* The fault plans open to a step whose fault-free run makes k0 I/O calls: each
\* fault adds at most the one call of the catch block it lands in.
RECURSIVE FaultSets(_, _)
FaultSets(n, budget) ==
  IF budget <= 0 THEN {}
  ELSE UNION {{ {a} \cup B : B \in {{}} \cup FaultSets(a - 1, budget - 1) } : a \in 1..n}

FaultPlans(k0) ==
  {NoFault} \cup
  {[at |-> A, mode |-> m] : A \in FaultSets(k0 + faultBudget, faultBudget), m \in {"throw", "reject", "badjson"}}

\* Writes the threaded state back; every planned fault must have hit a call.
Commit(st, fp) ==
  /\ fp.at \subseteq 1..st.k
  /\ Len(st.messages) + Len(st.comments) <= MaxRecords
  /\ webhook_events' = st.webhook_events
  /\ messages' = st.messages
  /\ comments' = st.comments
  /\ automation_logs' = st.automation_logs
  /\ webhook_logs' = st.webhook_logs
  /\ outbound' = st.outbound
  /\ dispatches' = st.dispatches
  /\ faultBudget' = faultBudget - Cardinality(fp.at)
  /\ UNCHANGED <<accounts, automations, server>>

(***************************************************************************)
(* Inputs: inbound payloads and the store's initial contents               *)
(***************************************************************************)
TPx == <<"P", "x">>

Msg(mid, sender, text) ==
  [isNull |-> FALSE, hasMessage |-> TRUE, is_echo |-> FALSE, mid |-> mid, sender |-> sender, text |-> text]

EchoMsg == [Msg("m8", "ig1", TPx) EXCEPT !.is_echo = TRUE]

NoPayloadMsg == [Msg("", "u1", <<>>) EXCEPT !.hasMessage = FALSE]

NullMsg == [Msg("", "", <<>>) EXCEPT !.isNull = TRUE]

Change(field, id, from, text) ==
  [isNull |-> FALSE, field |-> field, hasValue |-> TRUE, id |-> id, comment_id |-> "", from |-> from, text |-> text]

NullChange == [Change("", "", "", <<>>) EXCEPT !.isNull = TRUE]

NoValue == [Change("", "", "", <<>>) EXCEPT !.hasValue = FALSE]

Entry(id, messaging, changes) ==
  [isNull |-> FALSE, id |-> id, messaging |-> messaging, changes |-> changes, field |-> "", value |-> NoValue]

NullEntry == [Entry("", <<>>, <<>>) EXCEPT !.isNull = TRUE]

Envelope(entries) == [object |-> "instagram", hasEntry |-> TRUE, entryIsArray |-> TRUE, entry |-> entries]

EnvMessage == Envelope(<<Entry("ig1", <<Msg("m1", "u1", TPx)>>, <<>>)>>)

EnvComment(id) == Envelope(<<Entry("ig1", <<>>, <<Change("comments", id, "u2", TPx)>>)>>)

EnvMixed == Envelope(<<Entry("ig1", <<EchoMsg, NoPayloadMsg>>, <<Change("live_comments", "c2", "u2", <<"q">>)>>)>>)

EnvTwoMessages == Envelope(<<Entry("ig1", <<Msg("m3", "u1", <<"x">>), Msg("m4", "u1", <<"Q">>)>>, <<>>)>>)

EnvOtherAccount == Envelope(<<Entry("ig2", <<Msg("m2", "u3", TPx)>>, <<Change("comments", "c3", "u3", TPx)>>)>>)

EnvMalformed ==
  Envelope(<<NullEntry,
             Entry("ig1", <<NullMsg, Msg("", "", <<>>)>>,
                   <<Change("mentions", "c6", "u2", TPx), [NoValue EXCEPT !.field = "comments"], NullChange,
                     Change("comments", "c7", "u2", TPx)>>)>>)

EnvPage == [EnvMessage EXCEPT !.object = "page"]

\* A comment in the entry's own field and value, beside one in changes.
EnvDirectField ==
  Envelope(<<[Entry("ig1", <<>>, <<Change("comments", "c8", "u2", <<"q">>)>>)
                EXCEPT !.field = "live_comments", !.value = Change("", "c9", "u2", TPx)]>>)

EnvNoEntry == [object |-> "instagram", hasEntry |-> FALSE, entryIsArray |-> FALSE, entry |-> <<>>]

EnvEntryNotArray == [object |-> "instagram", hasEntry |-> TRUE, entryIsArray |-> FALSE, entry |-> <<>>]

\* Two entries, the first with a message and a comment, the second with a
\* message that has no text.
EnvTwoEntries ==
  Envelope(<<Entry("ig1", <<Msg("m5", "u1", TPx)>>, <<Change("comments", "c10", "u2", TPx)>>),
             Entry("ig1", <<Msg("m6", "u1", <<>>)>>, <<>>)>>)

\* The envelopes that carry more than one item.
OrderEnvelopes == {EnvTwoEntries, EnvTwoMessages, EnvOtherAccount, EnvMalformed, EnvDirectField}

Envelopes ==
  {EnvMessage, EnvComment("c1"), EnvMixed, EnvTwoMessages, EnvOtherAccount, EnvMalformed,
   EnvPage, EnvNoEntry, EnvEntryNotArray}

Ev(id, data, createdAt) ==
  [_id |-> id, hasData |-> TRUE, data |-> data, processed |-> FALSE, createdAt |-> createdAt,
   error |-> FALSE, processedAt |-> FALSE]

\* More pending events than one fetch takes: PendingLimit events that no sweep
\* marks, and a younger event behind them.
Backlog ==
  [i \in 1..(PendingLimit + 1) |-> IF i <= PendingLimit THEN Ev(i, EnvPage, i) ELSE Ev(i, EnvComment("c1"), i)]

\* The store's accounts and automations, in store order.
Account(instagramId, accessToken) == [instagramId |-> instagramId, accessToken |-> accessToken]

Automation(id, instagramId, type, isActive, triggerKeywords) ==
  [_id |-> id, name |-> id, instagramId |-> instagramId, type |-> type, isActive |-> isActive,
   triggerKeywords |-> triggerKeywords, replyMessage |-> <<"reply", id>>]

ConfigA ==
  [accounts |-> <<Account("ig1", "tok1")>>,
   automations |->
     << Automation("a0", "ig1", "message", FALSE, << <<"p">> >>),
        Automation("a1", "ig1", "message", TRUE, << <<"q">> >>),
        Automation("a2", "ig1", "message", TRUE, << <<"z">>, <<"P">> >>),
        Automation("a3", "ig1", "message", TRUE, << <<"x">> >>),
        Automation("a4", "ig1", "comment", TRUE, <<>>),
        Automation("a5", "ig1", "comment", TRUE, << <<"p", "x">> >>),
        Automation("a6", "ig2", "message", TRUE, << <<"p">> >>),
        Automation("a9", "ig2", "comment", TRUE, << <<"X">> >>) >>]

ConfigB ==
  [accounts |-> <<Account("ig1", ""), Account("ig2", "tok2")>>,
   automations |->
     << Automation("a3", "ig1", "message", TRUE, << <<"x">> >>),
        Automation("a2", "ig1", "message", TRUE, << <<"z">>, <<"P">> >>),
        Automation("a7", "ig1", "comment", TRUE, << <<"x", "p">>, <<"X">> >>),
        Automation("a5", "ig1", "comment", TRUE, << <<"p", "x">> >>),
        Automation("a6", "ig2", "message", TRUE, << <<"p">> >>),
        Automation("a8", "ig2", "comment", TRUE, << <<>> >>) >>]

Configs == {ConfigA, ConfigB}

EventInits == { <<>>, <<Ev(1, EnvComment("c1"), 1)>>, <<Ev(1, EnvMessage, 1)>> }

\* Stored events for the reconciliation path alone: three pending comments;
\* events no sweep can process beside processed and processable ones; a backlog.
SweepEventInits ==
  { <<Ev(1, EnvComment("c1"), 1), Ev(2, EnvComment("c4"), 2), Ev(3, EnvComment("c5"), 3)>>,
    <<Ev(1, EnvMessage, 2), Ev(2, EnvComment("c1"), 1)>>,
    <<[Ev(1, EnvPage, 4) EXCEPT !.hasData = FALSE], Ev(2, EnvNoEntry, 2), [Ev(3, EnvMessage, 3) EXCEPT !.processed = TRUE],
      Ev(4, EnvEntryNotArray, 1), Ev(5, EnvMixed, 5)>>,
    Backlog }

Idle == [pc |-> "idle", pending |-> <<>>, i |-> 0]

InitStore(config, events, budget) ==
  /\ accounts = config.accounts
  /\ automations = config.automations
  /\ webhook_events = events
  /\ messages = <<>>
  /\ comments = <<>>
  /\ automation_logs = <<>>
  /\ webhook_logs = <<>>
  /\ outbound = <<>>
  /\ dispatches = <<>>
  /\ sweep = [w \in Sweepers |-> Idle]
  /\ lastSweep = [status |-> 0, processed |-> 0]
  /\ lastReq = [route |-> "", body |-> EnvNoEntry, status |-> 0]
  /\ nWebhooks = 0
  /\ faultBudget = budget

\* Either program over either configuration; the processor has no
\* reconciliation path, so stored events play no part in its runs.
Init ==
  \/ server = "render" /\ \E config \in Configs, events \in EventInits : InitStore(config, events, MaxFaults)
  \/ server = "processor" /\ \E config \in Configs : InitStore(config, <<>>, MaxFaults)

InitSweep ==
  server = "render" /\ \E config \in Configs, events \in SweepEventInits : InitStore(config, events, MaxFaults)

\* POST /webhook/process with body webhookData.
WebhookResponse(r, fp, webhookData) ==
  /\ Commit(r.st, fp)
  /\ lastReq' = [route |-> IF server = "processor" THEN "/process-webhook" ELSE "/webhook/process",
                 body |-> webhookData, status |-> r.status]

WebhookProcess(webhookData, fp) ==
  /\ server = "render"
  /\ nWebhooks < MaxWebhooks
  /\ \E r \in {webhookProcess(Load, fp, webhookData)} : WebhookResponse(r, fp, webhookData)
  /\ nWebhooks' = nWebhooks + 1
  /\ UNCHANGED <<sweep, lastSweep>>

\* POST /process-webhook with body webhookData.
ProcessWebhook(webhookData, fp) ==
  /\ server = "processor"
  /\ nWebhooks < MaxWebhooks
  /\ \E r \in {processWebhook(Load, fp, webhookData)} : WebhookResponse(r, fp, webhookData)
  /\ nWebhooks' = nWebhooks + 1
  /\ UNCHANGED <<sweep, lastSweep>>

\* A pending fetch that leaves out the events another request still holds.
sweepFetchExclusive(w, fp) ==
  IF 1 \in fp.at
  THEN /\ sweep' = [sweep EXCEPT ![w] = Idle]
       /\ lastSweep' = [status |-> 500, processed |-> 0]
  ELSE /\ sweep' = [sweep EXCEPT ![w] =
                      [pc |-> "loop",
                       pending |-> LET Free(e) == \A v \in Sweepers \ {w} :
                                                    \A n \in 1..Len(sweep[v].pending) : sweep[v].pending[n]._id # e._id
                                   IN SelectSeq(fetchPending(webhook_events), Free),
                       i |-> 1]]
       /\ UNCHANGED lastSweep

\* POST /process/pending up to the start of its loop: the pending fetch.
sweepFetch(w, fp) ==
  IF 1 \in fp.at
  THEN /\ sweep' = [sweep EXCEPT ![w] = Idle]
       /\ lastSweep' = [status |-> 500, processed |-> 0]
  ELSE /\ sweep' = [sweep EXCEPT ![w] = [pc |-> "loop", pending |-> fetchPending(webhook_events), i |-> 1]]
       /\ UNCHANGED lastSweep

PostProcessPending(w, fp) ==
  /\ server = "render"
  /\ sweep[w].pc = "idle"
  /\ Cardinality(fp.at) <= faultBudget
  /\ sweepFetch(w, fp)
  /\ Commit(Tick(Load), fp)
  /\ UNCHANGED <<lastReq, nWebhooks>>

\* The cron job of every minute: it posts to /process/pending when the count of
\* unprocessed events is positive.
CronPendingSweep(w) ==
  /\ server = "render"
  /\ sweep[w].pc = "idle"
  /\ Cardinality({i \in 1..Len(webhook_events) : ~webhook_events[i].processed}) > 0
  /\ sweepFetch(w, NoFault)
  /\ Commit(Tick(Load), NoFault)
  /\ UNCHANGED <<lastReq, nWebhooks>>

\* The end of one iteration: the next event, or the outer catch and its 500.
SweepEventDone(r, fp, w) ==
  /\ Commit(r.st, fp)
  /\ IF r.threw
     THEN /\ sweep' = [sweep EXCEPT ![w] = Idle]
          /\ lastSweep' = [status |-> 500, processed |-> 0]
     ELSE /\ sweep' = [sweep EXCEPT ![w].i = @ + 1]
          /\ UNCHANGED lastSweep

\* One iteration of the loop of POST /process/pending.
SweepEvent(w, fp) ==
  /\ sweep[w].pc = "loop"
  /\ sweep[w].i <= Len(sweep[w].pending)
  /\ \E r \in {sweepEvent(Load, fp, sweep[w].pending[sweep[w].i])} : SweepEventDone(r, fp, w)
  /\ UNCHANGED <<lastReq, nWebhooks>>

\* A response that counts the fetched events the store now has as processed.
SweepRespondCountMarked(w) ==
  /\ sweep[w].pc = "loop"
  /\ sweep[w].i > Len(sweep[w].pending)
  /\ sweep' = [sweep EXCEPT ![w] = Idle]
  /\ lastSweep' = [status |-> 200,
                   processed |-> Cardinality({n \in 1..Len(webhook_events) :
                                                /\ webhook_events[n].processed
                                                /\ \E j \in 1..Len(sweep[w].pending) :
                                                      sweep[w].pending[j]._id = webhook_events[n]._id})]
  /\ UNCHANGED <<accounts, automations, webhook_events, messages, comments, automation_logs,
                 webhook_logs, outbound, dispatches, lastReq, nWebhooks, faultBudget, server>>

\* res.json({ success: true, processed: pendingEvents.length })
SweepRespond(w) ==
  /\ sweep[w].pc = "loop"
  /\ sweep[w].i > Len(sweep[w].pending)
  /\ sweep' = [sweep EXCEPT ![w] = Idle]
  /\ lastSweep' = [status |-> 200, processed |-> Len(sweep[w].pending)]
  /\ UNCHANGED <<accounts, automations, webhook_events, messages, comments, automation_logs,
                 webhook_logs, outbound, dispatches, lastReq, nWebhooks, faultBudget, server>>

Calls(st) == st.k

WebhookNext ==
  /\ server = "render"
  /\ nWebhooks < MaxWebhooks
  /\ \E webhookData \in Envelopes :
       \E fp \in FaultPlans(Calls(webhookProcess(Load, NoFault, webhookData).st)) : WebhookProcess(webhookData, fp)

ProcessWebhookNext ==
  /\ server = "processor"
  /\ nWebhooks < MaxWebhooks
  /\ \E webhookData \in Envelopes \cup {EnvDirectField} :
       \E fp \in FaultPlans(Calls(processWebhook(Load, NoFault, webhookData).st)) : ProcessWebhook(webhookData, fp)

SweepEventNext(w) ==
  /\ sweep[w].pc = "loop"
  /\ sweep[w].i <= Len(sweep[w].pending)
  /\ \E fp \in FaultPlans(Calls(sweepEvent(Load, NoFault, sweep[w].pending[sweep[w].i]).st)) : SweepEvent(w, fp)

Next ==
  \/ WebhookNext
  \/ ProcessWebhookNext
  \/ \E w \in Sweepers : \E fp \in {NoFault, [at |-> {1}, mode |-> "throw"]} : PostProcessPending(w, fp)
  \/ \E w \in Sweepers : CronPendingSweep(w)
  \/ \E w \in Sweepers : SweepEventNext(w)
  \/ \E w \in Sweepers : SweepRespond(w)

\* The reconciliation path alone, one sweep at a time.
NextSweep ==
  \/ \E fp \in {NoFault, [at |-> {1}, mode |-> "throw"]} : PostProcessPending("s1", fp)
  \/ CronPendingSweep("s1")
  \/ SweepEventNext("s1")
  \/ SweepRespond("s1")

Spec == Init /\ [][Next]_vars

SpecSweep == InitSweep /\ [][NextSweep]_vars

\* The live path alone, of either program: webhook requests over a store
\* that holds no stored events.
InitLive ==
  \/ server = "render" /\ \E config \in Configs : InitStore(config, <<>>, MaxFaults)
  \/ server = "processor" /\ \E config \in Configs : InitStore(config, <<>>, MaxFaults)

NextLive == WebhookNext \/ ProcessWebhookNext

\* The live path over envelopes of several items.
WebhookOrderNext ==
  /\ server = "render"
  /\ nWebhooks < MaxWebhooks
  /\ \E webhookData \in OrderEnvelopes \ {EnvDirectField} :
       \E fp \in FaultPlans(Calls(webhookProcess(Load, NoFault, webhookData).st)) : WebhookProcess(webhookData, fp)

ProcessWebhookOrderNext ==
  /\ server = "processor"
  /\ nWebhooks < MaxWebhooks
  /\ \E webhookData \in OrderEnvelopes :
       \E fp \in FaultPlans(Calls(processWebhook(Load, NoFault, webhookData).st)) : ProcessWebhook(webhookData, fp)

NextOrder == WebhookOrderNext \/ ProcessWebhookOrderNext

SpecOrder == InitLive /\ [][NextOrder]_vars

SpecLive == InitLive /\ [][NextLive]_vars

\* The reconciliation path with two requests to POST /process/pending that
\* may overlap (the cron job's and one on demand), and no live webhook.
InitOverlap ==
  /\ server = "render"
  /\ \E config \in Configs :
       \E events \in {<<Ev(1, EnvComment("c1"), 1)>>, <<Ev(1, EnvMessage, 2), Ev(2, EnvComment("c1"), 1)>>} :
          InitStore(config, events, MaxFaults)

NextOverlap ==
  \/ \E w \in Sweepers : \E fp \in {NoFault, [at |-> {1}, mode |-> "throw"]} : PostProcessPending(w, fp)
  \/ \E w \in Sweepers : CronPendingSweep(w)
  \/ \E w \in Sweepers : SweepEventNext(w)
  \/ \E w \in Sweepers : SweepRespond(w)

SpecOverlap == InitOverlap /\ [][NextOverlap]_vars

\* The reconciliation path of an account that holds a token, with the sweeps
\* scheduled fairly: the cron job fires whenever events are pending, requests
\* on demand keep coming, and a request that has started is served to its
\* end (the sweeper is idle again and again).
InitFair ==
  server = "render" /\ \E events \in SweepEventInits : Len(events) <= 3 /\ InitStore(ConfigA, events, MaxFaults)

FairSpec ==
  /\ InitFair
  /\ [][NextSweep]_vars
  /\ WF_vars(CronPendingSweep("s1"))
  /\ WF_vars(PostProcessPending("s1", NoFault))
  /\ WF_vars(SweepRespond("s1"))
  /\ []<>(sweep["s1"].pc = "idle")

\* The same recurring sweeps over a store that holds more pending events than
\* one fetch takes.
InitBacklog ==
  server = "render" /\ \E config \in Configs : InitStore(config, Backlog, MaxFaults)

FairBacklog ==
  /\ InitBacklog
  /\ [][NextSweep]_vars
  /\ WF_vars(CronPendingSweep("s1"))
  /\ WF_vars(PostProcessPending("s1", NoFault))
  /\ WF_vars(SweepRespond("s1"))
  /\ []<>(sweep["s1"].pc = "idle")

(***************************************************************************)
(* Properties                                                              *)
(***************************************************************************)
Range(seq) == {seq[i] : i \in 1..Len(seq)}

\* The keyword, letter case ignored, occurs in the text.
OccursIn(keyword, text) ==
  \E off \in 0..(Len(text) - Len(keyword)) :
     \A j \in 1..Len(keyword) : Lower(text[off + j]) = Lower(keyword[j])

\* The places, in load order, of the active automations of the account and
\* type that have a keyword occurring in the text.
Candidates(instagramId, type, text) ==
  {i \in 1..Len(automations) :
     /\ automations[i].instagramId = instagramId
     /\ automations[i].isActive
     /\ automations[i].type = type
     /\ \E n \in 1..Len(automations[i].triggerKeywords) : OccursIn(automations[i].triggerKeywords[n], text)}

\* The ids of the comments an envelope carries.
CommentIds(data) == UNION {{ch.id : ch \in Range(en.changes)} : en \in Range(data.entry)}

\* The dispatches a step has added.
NewDispatches == {dispatches'[n] : n \in (Len(dispatches) + 1)..Len(dispatches')}

\* C1: once a comment's record has isProcessed = true with a replyId, no step
\* of a reconciliation sweep invokes replyToComment for that comment again.
C1_NoReplyAfterProcessed ==
  [][sweep' # sweep =>
       \A i \in 1..Len(comments) :
          (comments[i].isProcessed /\ comments[i].replyId # "")
             => ~\E d \in NewDispatches : d.api = "replyToComment" /\ d.target = comments[i].commentId]_vars

\* C2: the Dispatcher is invoked for at most one automation per event, on a
\* non-empty text, and for the first automation in load order that has a
\* keyword which, lowercased, is a substring of the lowercased text.
C2_FirstMatchFires ==
  /\ \A d \in Range(dispatches) :
        /\ Len(d.eventText) > 0
        /\ Candidates(d.instagramId, d.kind, d.eventText) # {}
        /\ \A i \in Candidates(d.instagramId, d.kind, d.eventText) :
              (\A j \in Candidates(d.instagramId, d.kind, d.eventText) : i <= j)
                 => d.automationId = automations[i]._id /\ d.text = automations[i].replyMessage
  /\ \A m, n \in 1..Len(dispatches) :
        (dispatches[m].kind = dispatches[n].kind /\ dispatches[m].recordId = dispatches[n].recordId) => m = n

\* An automation fired although a later one in load order matches as well, and
\* another fired through a keyword written in upper case.
C2_Witness ==
  /\ \E d \in Range(dispatches) : Cardinality(Candidates(d.instagramId, d.kind, d.eventText)) >= 2
  /\ \E d \in Range(dispatches) : d.automationId = "a2"

\* C3: a body whose object is not "instagram" or whose entry is missing is
\* answered 400, and the request writes to no collection and makes no
\* outbound call.
C3_InvalidEnvelopeRejected ==
  [][(/\ nWebhooks' = nWebhooks + 1
      /\ lastReq'.route = "/webhook/process"
      /\ (lastReq'.body.object # "instagram" \/ ~lastReq'.body.hasEntry))
        => /\ lastReq'.status = 400
           /\ UNCHANGED <<webhook_events, messages, comments, automation_logs, webhook_logs, outbound, dispatches>>]_vars

C3_Witness ==
  /\ nWebhooks = 1
  /\ lastReq.route = "/webhook/process"
  /\ lastReq.status = 400
  /\ lastReq.body.object = "page"
  /\ lastReq.body.hasEntry

\* C4: handleMessage on an item that is an echo or has no message payload
\* makes no store call, no log entry, no automation lookup and no outbound
\* call, whatever the store holds and whatever would fail; no message record
\* carries an echo's id.
C4_EchoSkipped ==
  /\ \A message \in {EchoMsg, NoPayloadMsg, [NoPayloadMsg EXCEPT !.is_echo = TRUE]} :
        \A instagramId \in {"ig1", "ig2"} :
           \A fp \in {NoFault, [at |-> {1}, mode |-> "throw"]} :
              handleMessage(Load, fp, instagramId, message) = Load
  /\ \A i \in 1..Len(messages) : messages[i].messageId # EchoMsg.mid /\ ~messages[i].isEcho

\* A webhook holding an echo and a payload-less item was processed, and its
\* comment stored, with no message stored.
C4_Witness ==
  /\ server = "render"
  /\ lastReq.body = EnvMixed
  /\ lastReq.status = 200
  /\ Len(comments) > 0
  /\ Len(messages) = 0

\* Document j precedes document i in the order of the pending fetch.
Older(coll, j, i) ==
  coll[j].createdAt < coll[i].createdAt \/ (coll[j].createdAt = coll[i].createdAt /\ j < i)

\* The document is among those a sweep took.
Fetched(pending, doc) == \E n \in 1..Len(pending) : pending[n]._id = doc._id

\* C5 as stated: the pending fetch of a sweep returns exactly the events that
\* are not marked processed.
C5_FetchedIffUnprocessed ==
  [][\A w \in Sweepers :
       (sweep[w].pc = "idle" /\ sweep'[w].pc = "loop")
          => \A i \in 1..Len(webhook_events) :
                Fetched(sweep'[w].pending, webhook_events[i]) <=> ~webhook_events[i].processed]_vars

\* C5: a pending fetch that returns, returns exactly the events that are not
\* marked processed and have fewer than 50 unprocessed events before them in
\* creation order; an event marked processed is in no fetch.
C5_FetchedIffAmongOldestUnprocessed ==
  [][\A w \in Sweepers :
       (sweep[w].pc = "idle" /\ sweep'[w].pc = "loop")
          => \A i \in 1..Len(webhook_events) :
                Fetched(sweep'[w].pending, webhook_events[i])
                   <=> /\ ~webhook_events[i].processed
                       /\ Cardinality({j \in 1..Len(webhook_events) :
                                         ~webhook_events[j].processed /\ Older(webhook_events, j, i)}) < PendingLimit]_vars

\* A sweep took 50 events and left an unprocessed one, newer than all of
\* them, behind.
C5_Witness ==
  /\ sweep["s1"].pc = "loop"
  /\ Len(sweep["s1"].pending) = PendingLimit
  /\ \E e \in Range(webhook_events) : ~e.processed /\ ~Fetched(sweep["s1"].pending, e)

\* C6: when a sweep has ended, every event one of whose dispatches failed has
\* error set and processed still false.
C6_FailedDispatchKeptPending ==
  (sweep["s1"].pc = "idle" /\ lastSweep.status = 200)
     => \A e \in Range(webhook_events) :
           (e.hasData /\ \E d \in Range(dispatches) : d.target \in CommentIds(e.data) /\ ~d.result.success)
              => e.error /\ ~e.processed

\* The comment has a stored record whose text matches an active automation.
Persisted(commentId) ==
  \E c \in Range(comments) :
     c.commentId = commentId /\ Candidates(c.instagramId, "comment", c.text) # {}

\* A reply to the comment was accepted by the platform.
Replied(commentId) ==
  \E d \in Range(dispatches) : d.api = "replyToComment" /\ d.target = commentId /\ d.result.success

\* C7: a comment that is stored and matches an active automation is eventually
\* replied to with success.
C7_EventuallyReplied == Persisted("c1") ~> Replied("c1")

\* C8: no two comment records, and no two message records, stand for the same
\* inbound item.
C8_OneRecordPerItem ==
  /\ \A i, j \in 1..Len(comments) :
        (comments[i].commentId = comments[j].commentId /\ comments[i].instagramId = comments[j].instagramId) => i = j
  /\ \A i, j \in 1..Len(messages) :
        (messages[i].messageId = messages[j].messageId /\ messages[i].instagramId = messages[j].instagramId) => i = j

\* C9: for an account that is absent or has no accessToken the Dispatcher makes
\* no outbound call and returns a failure, which is "No access token" whenever
\* the account lookup itself completed; no request carries an empty token.
C9_NoAccessToken ==
  /\ \A d \in Range(dispatches) :
        findOne(accounts, d.instagramId).accessToken = ""
           => /\ d.httpCalls = 0
              /\ ~d.result.success
              /\ d.result.error \in {"No access token", "store error"}
              /\ (d.result.error = "store error" => faultBudget < MaxFaults)
  /\ \A o \in Range(outbound) : o.token # ""

C9_Witness ==
  /\ \E d \in Range(dispatches) :
        d.api = "sendDirectMessage" /\ d.result = Failure("No access token") /\ d.httpCalls = 0
  /\ \E d \in Range(dispatches) :
        d.api = "replyToComment" /\ d.result = Failure("No access token") /\ d.httpCalls = 0

\* C10: an invocation of sendDirectMessage or replyToComment never throws,
\* issues at most one outbound call, and returns either a success (after one
\* call the platform accepted) or a failure carrying an error; a call the
\* platform did not accept is a failure.
C10_DispatcherTotal ==
  \A d \in Range(dispatches) :
     /\ ~d.threw
     /\ d.httpCalls \in {0, 1}
     /\ d.result.success => d.httpCalls = 1 /\ d.accepted /\ d.result.error = "" /\ d.result.id # ""
     /\ (d.httpCalls = 1 /\ ~d.accepted) => ~d.result.success
     /\ ~d.result.success => d.result.error # "" /\ d.result.id = ""

\* A transport or parse failure was caught and returned as a failure, and a
\* success was returned.
C10_Witness ==
  /\ \E d \in Range(dispatches) : d.result.error \in {"transport error", "parse error"} /\ d.httpCalls = 1
  /\ \E d \in Range(dispatches) : d.result.success

\* The events a request has fetched and not yet gone through.
Held(w) ==
  IF sweep[w].pc = "loop"
  THEN {sweep[w].pending[n] : n \in sweep[w].i..Len(sweep[w].pending)}
  ELSE {}

\* C11: the pending fetch is no claim step: it writes nothing to the stored
\* events, and it returns an unprocessed event although another request
\* holds that event, fetched and not yet handled.
C11_FetchClaimsNothing ==
  [][\A w \in Sweepers :
       (sweep[w].pc = "idle" /\ sweep'[w].pc = "loop")
          => /\ webhook_events' = webhook_events
             /\ \A v \in Sweepers \ {w} :
                   \A e \in Held(v) :
                      (\E d \in Range(webhook_events) : d._id = e._id /\ ~d.processed)
                         => Fetched(sweep'[w].pending, e)]_vars

\* With no fault and no live webhook, the one stored comment was replied to
\* twice with success: two requests fetched it before either marked it.
C11_Witness ==
  /\ faultBudget = MaxFaults
  /\ nWebhooks = 0
  /\ Len(webhook_events) = 1
  /\ webhook_events[1].processed
  /\ Cardinality({n \in 1..Len(dispatches) :
                    /\ dispatches[n].api = "replyToComment"
                    /\ dispatches[n].target = "c1"
                    /\ dispatches[n].result.success}) = 2
  /\ Cardinality({n \in 1..Len(outbound) : outbound[n].id = "c1" /\ outbound[n].ok}) = 2

\* The stored event is still unprocessed.
Pending(id) == \E e \in Range(webhook_events) : e._id = id /\ ~e.processed

\* The stored event is among the events a running sweep has fetched.
Selected(id) ==
  \E w \in Sweepers :
     sweep[w].pc = "loop" /\ \E n \in 1..Len(sweep[w].pending) : sweep[w].pending[n]._id = id

\* C12: with sweeps recurring forever, every stored event that is unprocessed
\* is eventually fetched by some sweep.
C12_PendingEventuallySelected ==
  \A id \in {1, PendingLimit, PendingLimit + 1} : Pending(id) ~> Selected(id)

\* C13: the events a sweep fetches are stored events with processed = false,
\* at most 50 of them, in ascending createdAt order, none of them newer than an
\* unprocessed event left out; the loop then handles them one by one in that
\* order, touching only the stored event whose turn it is.
C13_OldestFirst ==
  [][\A w \in Sweepers :
       /\ (sweep[w].pc = "idle" /\ sweep'[w].pc = "loop")
             => /\ Len(sweep'[w].pending) <= PendingLimit
                /\ \A n \in 1..Len(sweep'[w].pending) :
                      sweep'[w].pending[n] \in Range(webhook_events) /\ ~sweep'[w].pending[n].processed
                /\ \A n, m \in 1..Len(sweep'[w].pending) :
                      n < m => /\ sweep'[w].pending[n].createdAt <= sweep'[w].pending[m].createdAt
                               /\ sweep'[w].pending[n]._id # sweep'[w].pending[m]._id
                /\ \A e \in Range(webhook_events) :
                      (~e.processed /\ ~Fetched(sweep'[w].pending, e))
                         => \A n \in 1..Len(sweep'[w].pending) : sweep'[w].pending[n].createdAt <= e.createdAt
       /\ (sweep[w].pc = "loop" /\ sweep'[w].pc = "loop")
             => /\ sweep'[w].pending = sweep[w].pending
                /\ sweep'[w].i = sweep[w].i + 1
                /\ \A j \in 1..Len(webhook_events) :
                      webhook_events'[j] # webhook_events[j]
                         => webhook_events[j]._id = sweep[w].pending[sweep[w].i]._id]_vars

\* A sweep over a store whose older event was stored second has handled and
\* marked that event first and now turns to the newer one.
C13_Witness ==
  /\ sweep["s1"].pc = "loop"
  /\ Len(sweep["s1"].pending) = 2
  /\ sweep["s1"].i = 2
  /\ sweep["s1"].pending[1]._id = 2
  /\ sweep["s1"].pending[2]._id = 1
  /\ webhook_events[2].processed
  /\ ~webhook_events[1].processed

\* C14: POST /webhook/process answers 200 to every envelope whose object is
\* "instagram" and whose entry is a list, whatever failed below the envelope.
C14_WellFormedAnswers200 ==
  (lastReq.route = "/webhook/process" /\ lastReq.body.object = "instagram"
      /\ lastReq.body.hasEntry /\ lastReq.body.entryIsArray)
     => lastReq.status = 200

\* A well-formed envelope was answered 200 although a store or network call
\* failed under it and the outbound call of one of its items did not succeed.
C14_Witness ==
  /\ lastReq.route = "/webhook/process"
  /\ lastReq.body.object = "instagram" /\ lastReq.body.hasEntry /\ lastReq.body.entryIsArray
  /\ lastReq.status = 200
  /\ faultBudget < MaxFaults
  /\ \E d \in Range(dispatches) : ~d.result.success /\ d.httpCalls > 0

\* The comment changes an envelope carries: the items of the changes of its
\* entries whose field is comments or live_comments and that have a value.
CommentChanges(data) ==
  UNION {{ch \in Range(en.changes) :
            ~ch.isNull /\ ch.hasValue /\ (ch.field = "comments" \/ ch.field = "live_comments")} :
         en \in {e \in Range(data.entry) : ~e.isNull}}

\* C15: when a request has been answered and no store or network call failed,
\* every comment of its envelope has a comment record, whatever malformed
\* items stand before it in the envelope.
C15_SiblingsProcessed ==
  (lastReq.status = 200 /\ lastReq.body.hasEntry /\ lastReq.body.entryIsArray /\ faultBudget = MaxFaults)
     => \A ch \in CommentChanges(lastReq.body) : \E c \in Range(comments) : c.commentId = ch.id

\* The request handler of the running program, applied to the present store.
Handle(fp, webhookData) ==
  IF server = "render" THEN webhookProcess(Load, fp, webhookData) ELSE processWebhook(Load, fp, webhookData)

\* The log without the entry that the request wrote as its k-th I/O call.
WithoutCall(log, base, k) ==
  LET Other(e) == e.timestamp # k
  IN SubSeq(log, 1, base) \o SelectSeq(SubSeq(log, base + 1, Len(log)), Other)

\* The I/O calls of a request that are log writes.
LogCalls(st) ==
  {st.webhook_logs[n].timestamp : n \in (Len(webhook_logs) + 1)..Len(st.webhook_logs)}
     \cup {st.automation_logs[n].timestamp : n \in (Len(automation_logs) + 1)..Len(st.automation_logs)}

\* C16: for every request on the present store and every log write it makes,
\* the request in which that write fails gives the same response and leaves
\* the same store, outbound calls and dispatches as the request without the
\* failure, but for the one log entry that is missing.
C16_LogFailureAbsorbed ==
  \A webhookData \in Envelopes \cup {EnvDirectField} :
     \A whole \in {Handle(NoFault, webhookData)} :
        \A k \in LogCalls(whole.st) :
           \A failed \in {Handle([at |-> {k}, mode |-> "throw"], webhookData)} :
              /\ failed.status = whole.status
              /\ failed.st = [whole.st EXCEPT !.webhook_logs = WithoutCall(@, Len(webhook_logs), k),
                                              !.automation_logs = WithoutCall(@, Len(automation_logs), k)]

\* The write of the automation log failed after a reply that succeeded, and
\* the comment was marked as replied all the same.
C16_Witness ==
  /\ faultBudget < MaxFaults
  /\ Len(automation_logs) = 0
  /\ Len(comments) = 1
  /\ comments[1].isProcessed
  /\ \E d \in Range(dispatches) : d.api = "replyToComment" /\ d.result.success

\* The reply calls made for a comment record.
RepliesFor(c) == {d \in Range(dispatches) : d.api = "replyToComment" /\ d.recordId = c._id}

\* C17: a comment record with isProcessed = true has a reply call that
\* succeeded, and carries the automationId of that call's automation, the
\* replyId the call returned and repliedAt; a record with isProcessed = false,
\* as every record without a successful reply call is, has none of the three.
C17_ProcessedOnlyAfterReply ==
  \A c \in Range(comments) :
     /\ c.isProcessed
          => /\ c.repliedAt /\ c.replyId # ""
             /\ \E d \in RepliesFor(c) :
                   /\ d.result.success /\ d.target = c.commentId
                   /\ c.automationId = d.automationId /\ c.replyId = d.result.id
     /\ ~c.isProcessed => (c.automationId = "" /\ c.replyId = "" /\ ~c.repliedAt)

\* One comment was replied to and marked; another, which matched no keyword,
\* has no reply call and stays unmarked.
C17_Witness ==
  /\ \E c \in Range(comments) : c.isProcessed /\ c.replyId # "" /\ c.automationId # ""
  /\ \E c \in Range(comments) : ~c.isProcessed /\ Len(c.text) > 0 /\ RepliesFor(c) = {}

\* The ids of the messages an envelope carries.
MessageIds(data) ==
  UNION {{m.mid : m \in {x \in Range(en.messaging) : ~x.isNull /\ x.hasMessage}} :
         en \in {e \in Range(data.entry) : ~e.isNull}}

\* C18: when a sweep has handled a stored event and marked it, the message
\* records of the messages that event carries have processed = true.
C18_SweptMessageMarked ==
  \A e \in Range(webhook_events) :
     (e.processed /\ e.hasData /\ e.data.hasEntry /\ e.data.entryIsArray)
        => \A m \in Range(messages) : m.messageId \in MessageIds(e.data) => m.processed

\* The Dispatcher invocations made for a message record.
SendsFor(m) == {n \in 1..Len(dispatches) : dispatches[n].kind = "message" /\ dispatches[n].recordId = m._id}

\* The automation log entries that a dispatch accounts for.
LogsOf(d) ==
  {n \in 1..Len(automation_logs) :
     /\ automation_logs[n].triggerType = d.kind
     /\ automation_logs[n].automationId = d.automationId
     /\ automation_logs[n].instagramId = d.instagramId
     /\ automation_logs[n].triggerText = d.eventText
     /\ automation_logs[n].replyMessage = d.text}

\* The dispatches with the same automation, account and text as d that
\* succeeded.
SuccessesLike(d) ==
  {n \in 1..Len(dispatches) :
     /\ dispatches[n].result.success
     /\ dispatches[n].kind = d.kind
     /\ dispatches[n].automationId = d.automationId
     /\ dispatches[n].instagramId = d.instagramId
     /\ dispatches[n].eventText = d.eventText
     /\ dispatches[n].text = d.text}

\* The message record matches an automation.
Matches(m) == Len(m.text) > 0 /\ Candidates(m.instagramId, "message", m.text) # {}

\* C19 as stated: for every message record whose text matches an automation
\* the Dispatcher was invoked exactly once, with a matching automation's
\* replyMessage and the sender as recipient, and the automation log has an
\* entry of that automation for it.
C19_MatchDispatchesAndLogs ==
  \A m \in Range(messages) :
     Matches(m)
        => /\ Cardinality(SendsFor(m)) = 1
           /\ \A n \in SendsFor(m) :
                 /\ dispatches[n].api = "sendDirectMessage"
                 /\ dispatches[n].target = m.senderId
                 /\ \E i \in Candidates(m.instagramId, "message", m.text) :
                       automations[i]._id = dispatches[n].automationId /\ automations[i].replyMessage = dispatches[n].text
                 /\ LogsOf(dispatches[n]) # {}

\* C19: for every message record whose text matches an automation the
\* Dispatcher was invoked at most once, and exactly once when no store or
\* network call failed, with a matching automation's replyMessage and the
\* sender as recipient; the automation log has no more entries of a message
\* automation than dispatches of it succeeded, and as many when no call failed.
C19_LogOnlyAfterSuccess ==
  /\ \A m \in Range(messages) :
        Matches(m)
           => /\ Cardinality(SendsFor(m)) <= 1
              /\ faultBudget = MaxFaults => Cardinality(SendsFor(m)) = 1
              /\ \A n \in SendsFor(m) :
                    /\ dispatches[n].api = "sendDirectMessage"
                    /\ dispatches[n].target = m.senderId
                    /\ \E i \in Candidates(m.instagramId, "message", m.text) :
                          automations[i]._id = dispatches[n].automationId /\ automations[i].replyMessage = dispatches[n].text
                    /\ Cardinality(LogsOf(dispatches[n])) <= Cardinality(SuccessesLike(dispatches[n]))
                    /\ faultBudget = MaxFaults
                          => Cardinality(LogsOf(dispatches[n])) = Cardinality(SuccessesLike(dispatches[n]))
  /\ \A l \in Range(automation_logs) :
        l.triggerType = "message"
           => \E d \in Range(dispatches) :
                 /\ d.kind = "message" /\ d.result.success /\ d.target = l.triggeredBy
                 /\ d.automationId = l.automationId /\ d.text = l.replyMessage

\* Of two messages that matched, one was answered and logged, and the other
\* one's dispatch failed and left no log entry.
C19_Witness ==
  /\ \E m \in Range(messages) :
        Matches(m) /\ \E n \in SendsFor(m) : dispatches[n].result.success /\ Cardinality(LogsOf(dispatches[n])) = 1
  /\ \E m \in Range(messages) :
        Matches(m) /\ \E n \in SendsFor(m) : ~dispatches[n].result.success /\ LogsOf(dispatches[n]) = {}

\* C20: a sweep that has fetched its events ends only after the last of them
\* has had its turn, and it answers 200, whatever failed for any one event.
C20_SweepHandlesEveryFetched ==
  [][\A w \in Sweepers :
       (sweep[w].pc = "loop" /\ sweep'[w].pc = "idle")
          => /\ sweep[w].i > Len(sweep[w].pending)
             /\ lastSweep'.status = 200
             /\ lastSweep'.processed = Len(sweep[w].pending)]_vars

\* The places <<entry, phase, item>> at which an envelope carries the item a
\* record stands for: phase 1 is messaging, 2 changes, 3 the entry's own value.
Place(data, kind, rec) ==
  IF kind = "message"
  THEN {p \in (1..Len(data.entry)) \X {1} \X (1..(MaxRecords + 1)) :
          /\ ~data.entry[p[1]].isNull
          /\ p[3] <= Len(data.entry[p[1]].messaging)
          /\ ~data.entry[p[1]].messaging[p[3]].isNull
          /\ rec.instagramId = data.entry[p[1]].id
          /\ rec.messageId = (IF data.entry[p[1]].messaging[p[3]].mid # ""
                              THEN data.entry[p[1]].messaging[p[3]].mid ELSE "msg_now")}
  ELSE {p \in (1..Len(data.entry)) \X {2} \X (1..(MaxRecords + 1)) :
          /\ ~data.entry[p[1]].isNull
          /\ p[3] <= Len(data.entry[p[1]].changes)
          /\ ~data.entry[p[1]].changes[p[3]].isNull
          /\ rec.instagramId = data.entry[p[1]].id
          /\ rec.commentId = data.entry[p[1]].changes[p[3]].id}
       \cup {p \in (1..Len(data.entry)) \X {3} \X {1} :
               /\ ~data.entry[p[1]].isNull
               /\ rec.instagramId = data.entry[p[1]].id
               /\ data.entry[p[1]].value.hasValue
               /\ rec.commentId = data.entry[p[1]].value.id}

\* Place p comes before place q in the envelope.
Earlier(p, q) ==
  \/ p[1] < q[1]
  \/ p[1] = q[1] /\ p[2] < q[2]
  \/ p[1] = q[1] /\ p[2] = q[2] /\ p[3] < q[3]

\* The records a step has inserted, each with its kind.
NewRecords ==
  {[kind |-> "message", rec |-> messages'[n]] : n \in (Len(messages) + 1)..Len(messages')}
     \cup {[kind |-> "comment", rec |-> comments'[n]] : n \in (Len(comments) + 1)..Len(comments')}

\* C21: of two items of one envelope, the one that stands earlier (by entry,
\* then messaging before changes, then place in its list) is persisted first,
\* and its Dispatcher invocation starts after its own insert and has returned
\* before the insert of the later item.
C21_ItemsInArrayOrder ==
  [][nWebhooks' = nWebhooks + 1 =>
       \A a, b \in NewRecords :
          \A p \in Place(lastReq'.body, a.kind, a.rec) :
             \A q \in Place(lastReq'.body, b.kind, b.rec) :
                Earlier(p, q)
                   => /\ a.rec.createdAt < b.rec.createdAt
                      /\ \A d \in NewDispatches :
                            (d.kind = a.kind /\ d.recordId = a.rec._id)
                               => a.rec.createdAt < d.first /\ d.last < b.rec.createdAt]_vars

\* The envelope of two entries was processed: the message of the first entry
\* and its Dispatcher invocation, then its comment and its Dispatcher
\* invocation, then the message of the second entry.
C21_Witness ==
  /\ lastReq.body = EnvTwoEntries
  /\ Len(messages) = 2 /\ Len(comments) = 1 /\ Len(dispatches) = 2
  /\ messages[1].messageId = "m5" /\ messages[2].messageId = "m6"
  /\ messages[1].createdAt < comments[1].createdAt
  /\ comments[1].createdAt < messages[2].createdAt

\* The automation of the store with the given _id.
AutomationOf(id) == CHOOSE a \in Range(automations) : a._id = id

\* The calls handleMessage and handleComment make for an item they store and
\* do not pass to the matcher: the insertOne, and on the render server the
\* logEvent after it.
StoreOnlyCalls == IF server = "render" THEN 2 ELSE 1

\* C22: no Dispatcher invocation is for an automation whose triggerKeywords is
\* empty, or for an event whose text is empty; a message or a comment without
\* text, for any account and on any store, is inserted and that is all: no
\* lookup of automations, no outbound call, no dispatch, no automation log.
C22_EmptyNeverMatches ==
  /\ \A d \in Range(dispatches) :
        Len(d.eventText) > 0 /\ Len(AutomationOf(d.automationId).triggerKeywords) > 0
  /\ \A instagramId \in {"ig1", "ig2"} :
        /\ \A r \in {handleMessage(Load, NoFault, instagramId, Msg("m9", "u1", <<>>))} :
              /\ Len(r.messages) = Len(messages) + 1
              /\ r.messages[Len(r.messages)].text = <<>>
              /\ r.k = StoreOnlyCalls
              /\ r.outbound = outbound /\ r.dispatches = dispatches /\ r.automation_logs = automation_logs
        /\ \A r \in {handleComment(Load, NoFault, instagramId, Change("comments", "c11", "u2", <<>>))} :
              /\ Len(r.comments) = Len(comments) + 1
              /\ r.comments[Len(r.comments)].text = <<>>
              /\ ~r.comments[Len(r.comments)].isProcessed
              /\ r.k = StoreOnlyCalls
              /\ r.outbound = outbound /\ r.dispatches = dispatches /\ r.automation_logs = automation_logs

\* A message without text was stored and nothing was dispatched for it, and
\* a comment was answered by the automation that stands behind one without
\* keywords.
C22_Witness ==
  /\ \E m \in Range(messages) : Len(m.text) = 0 /\ SendsFor(m) = {}
  /\ \E d \in Range(dispatches) :
        /\ d.kind = "comment"
        /\ \E i, j \in 1..Len(automations) :
              /\ i < j
              /\ automations[i].type = "comment" /\ automations[i].isActive
              /\ automations[i].instagramId = d.instagramId
              /\ Len(automations[i].triggerKeywords) = 0
              /\ automations[j]._id = d.automationId

\* The place of the record's insertOne among the I/O calls of a request that
\* carries one item: the processor updates its webhook log first.
InsertCall == IF server = "render" THEN 1 ELSE 2

\* The calls of such a request whose insertOne fails: on the render server
\* the handler's error log and the log of the processed webhook follow it.
FailedInsertCalls == IF server = "render" THEN 3 ELSE 2

\* C23: every Dispatcher invocation is for a record that is in the store and
\* was inserted before the invocation began; and on any store, the request
\* whose insertOne of the message or comment fails is answered 200, stores no
\* record, looks up no automation, dispatches nothing and makes no outbound
\* call.
C23_DispatchOnlyAfterInsert ==
  /\ \A d \in Range(dispatches) :
        /\ d.kind = "message"
              => \E m \in Range(messages) :
                    m._id = d.recordId /\ m.text = d.eventText /\ m.createdAt < d.first
        /\ d.kind = "comment"
              => \E c \in Range(comments) :
                    c._id = d.recordId /\ c.text = d.eventText /\ c.createdAt < d.first
  /\ \A webhookData \in {EnvMessage, EnvComment("c1")} :
        \A m \in {"throw", "reject", "badjson"} :
           \A r \in {Handle([at |-> {InsertCall}, mode |-> m], webhookData)} :
              /\ r.status = 200
              /\ r.st.k = FailedInsertCalls
              /\ r.st.messages = messages /\ r.st.comments = comments
              /\ r.st.outbound = outbound /\ r.st.dispatches = dispatches
              /\ r.st.automation_logs = automation_logs

\* The insert of a message failed: the request was answered 200, the failure
\* was logged, and there is no record, no dispatch and no outbound call.
C23_Witness ==
  /\ lastReq.body = EnvMessage /\ lastReq.status = 200
  /\ faultBudget < MaxFaults
  /\ \E l \in Range(webhook_logs) : l.eventType = "message_handling_error" /\ l.timestamp = 2
  /\ Len(messages) = 0 /\ Len(dispatches) = 0 /\ Len(outbound) = 0

\* The envelope fails the test of the loop body: its object is not
\* "instagram" or it has no entry.
Skipped(data) == ~(data.object = "instagram" /\ data.hasEntry)

\* The envelope is of object "instagram" with an entry that is a list.
WellFormed(data) == data.object = "instagram" /\ data.hasEntry /\ data.entryIsArray

\* C24 as stated: the turn of a fetched event that has an envelope which is
\* not of object "instagram" with an entry list changes no stored event.
C24_IllFormedLeftUnchanged ==
  [][\A w \in Sweepers :
       (/\ sweep[w].pc = "loop" /\ sweep'[w] # sweep[w]
        /\ sweep[w].i <= Len(sweep[w].pending)
        /\ sweep[w].pending[sweep[w].i].hasData
        /\ ~WellFormed(sweep[w].pending[sweep[w].i].data))
          => webhook_events' = webhook_events]_vars

\* C24: the turn of a fetched event whose envelope has another object than
\* "instagram" or no entry makes no call and changes nothing; no step changes
\* such a stored event, and no step sets processed on a stored event whose
\* envelope is not of object "instagram" with an entry list.
C24_SkippedEventUntouched ==
  [][/\ \A w \in Sweepers :
          (/\ sweep[w].pc = "loop" /\ sweep'[w] # sweep[w]
           /\ sweep[w].i <= Len(sweep[w].pending)
           /\ sweep[w].pending[sweep[w].i].hasData
           /\ Skipped(sweep[w].pending[sweep[w].i].data))
             => /\ sweep'[w] = [sweep[w] EXCEPT !.i = @ + 1]
                /\ UNCHANGED <<webhook_events, messages, comments, automation_logs, webhook_logs,
                               outbound, dispatches, faultBudget, lastSweep>>
     /\ \A n \in 1..Len(webhook_events) :
          webhook_events[n].hasData
             => /\ Skipped(webhook_events[n].data) => webhook_events'[n] = webhook_events[n]
                /\ ~WellFormed(webhook_events[n].data)
                      => webhook_events'[n].processed = webhook_events[n].processed]_vars

\* A sweep has ended with 200, and the next one has fetched again an event
\* without entry, which is in the store as it was: unprocessed, no error.
C24_Witness ==
  /\ lastSweep.status = 200
  /\ sweep["s1"].pc = "loop"
  /\ \E e \in Range(sweep["s1"].pending) :
        /\ e.hasData /\ Skipped(e.data)
        /\ ~e.processed /\ ~e.error /\ ~e.processedAt
        /\ e \in Range(webhook_events)

\* The places in the dispatches of a step's new Dispatcher invocations.
NewSends == (Len(dispatches) + 1)..Len(dispatches')

\* C25: in every step, a Dispatcher invocation that failed is the only one
\* made for its record, whatever other automations match the text; the
\* record is as it was inserted (a message with processed = false, a comment
\* with isProcessed = false and no automationId, replyId or repliedAt); and
\* the step appends no more automation log entries than it has invocations
\* that succeeded.
C25_FailedDispatchEndsScan ==
  [][/\ \A n \in NewSends :
          ~dispatches'[n].result.success
             => /\ \A k \in NewSends :
                      (dispatches'[k].kind = dispatches'[n].kind /\ dispatches'[k].recordId = dispatches'[n].recordId)
                         => k = n
                /\ dispatches'[n].kind = "message"
                      => \A m \in Range(messages') : m._id = dispatches'[n].recordId => ~m.processed
                /\ dispatches'[n].kind = "comment"
                      => \A c \in Range(comments') :
                            c._id = dispatches'[n].recordId
                               => ~c.isProcessed /\ c.automationId = "" /\ c.replyId = "" /\ ~c.repliedAt
     /\ Len(automation_logs') - Len(automation_logs)
           <= Cardinality({n \in NewSends : dispatches'[n].result.success})]_vars

\* The platform turned down the reply of the first automation that matched a
\* message; a later automation matches the text as well, and it was not
\* tried: one dispatch, no automation log.
C25_Witness ==
  /\ Len(dispatches) = 1
  /\ dispatches[1].kind = "message"
  /\ ~dispatches[1].result.success /\ dispatches[1].httpCalls = 1
  /\ Cardinality(Candidates(dispatches[1].instagramId, "message", dispatches[1].eventText)) >= 2
  /\ Len(automation_logs) = 0
  /\ Len(messages) = 1 /\ ~messages[1].processed

\* C26: the answer {success: true, processed} of POST /process/pending carries
\* the number of events its fetch returned, which is at most 50 and is the
\* number of unprocessed events the store held at the fetch when that is less.
C26_ProcessedIsFetchedCount ==
  [][\A w \in Sweepers :
       /\ (sweep[w].pc = "loop" /\ sweep'[w].pc = "idle" /\ lastSweep'.status = 200)
             => /\ lastSweep'.processed = Len(sweep[w].pending)
                /\ lastSweep'.processed <= PendingLimit
       /\ (sweep[w].pc = "idle" /\ sweep'[w].pc = "loop")
             => \/ Len(sweep'[w].pending) = PendingLimit
                \/ Len(sweep'[w].pending) = Cardinality({n \in 1..Len(webhook_events) : ~webhook_events[n].processed})]_vars

\* A sweep answered processed: 4 for four fetched events of which it marked
\* one, skipped one and failed on two.
C26_Witness ==
  /\ lastSweep.status = 200
  /\ lastSweep.processed = 4
  /\ Len(webhook_events) = 5
  /\ Cardinality({n \in 1..Len(webhook_events) : webhook_events[n].processed}) = 2
  /\ Cardinality({n \in 1..Len(webhook_events) : webhook_events[n].error}) = 2

====
